---- MODULE Spec2Model ----
(***************************************************************************)
(* Model of supplier_search_app.py: a Streamlit script that is re-run from *)
(* top to bottom on every interaction.  One run takes the uploaded grid    *)
(* and the search query and leaves elements on the page.  The state is the *)
(* widget state (uploaded file, search query) plus what the last run of    *)
(* the script computed and rendered.                                       *)
(*                                                                         *)
(* Text is a sequence of one-character strings, so that str.strip(),       *)
(* str.upper(), str.lower(), re.sub and str.contains are computed.         *)
(* A cell is a tagged value: nan (blank cell), str (text), num (integer).  *)
(***************************************************************************)
EXTENDS Integers, Sequences, FiniteSets, TLC

\* ------------------------------------------------------------------ bounds
MaxRows == 3
MaxData == 2
MaxQueryLen == 2

\* ------------------------------------------------------------------- cells
NaN == [k |-> "nan", s |-> <<>>, n |-> 0]
Str(s) == [k |-> "str", s |-> s, n |-> 0]
Num(n) == [k |-> "num", s |-> <<>>, n |-> n]

\* ------------------------------------------------------- text primitives
Lowers == <<"a","b","c","d","e","f","g","h","i","j","k","l","m",
            "n","o","p","q","r","s","t","u","v","w","x","y","z">>
Uppers == <<"A","B","C","D","E","F","G","H","I","J","K","L","M",
            "N","O","P","Q","R","S","T","U","V","W","X","Y","Z">>
DigitChars == <<"0","1","2","3","4","5","6","7","8","9">>

Chars == { Lowers[i] : i \in 1..Len(Lowers) } \cup { Uppers[i] : i \in 1..Len(Uppers) }
         \cup { DigitChars[i] : i \in 1..Len(DigitChars) }
         \cup {" ", "\t", "\n", ".", "-", "/"}

IsSpace(c) == c \in {" ", "\t", "\n"}
IsDigit(c) == c \in { DigitChars[i] : i \in 1..Len(DigitChars) }
IsAlnum(c) == \/ c \in { Lowers[i] : i \in 1..Len(Lowers) }
              \/ c \in { Uppers[i] : i \in 1..Len(Uppers) }
              \/ IsDigit(c)

\* the case mappings of the characters, tabulated once
UpperTable == [c \in Chars |->
                 IF \E i \in 1..Len(Lowers) : Lowers[i] = c
                 THEN Uppers[CHOOSE i \in 1..Len(Lowers) : Lowers[i] = c]
                 ELSE c]
LowerTable == [c \in Chars |->
                 IF \E i \in 1..Len(Uppers) : Uppers[i] = c
                 THEN Lowers[CHOOSE i \in 1..Len(Uppers) : Uppers[i] = c]
                 ELSE c]

UpperChar(c) == UpperTable[c]
LowerChar(c) == LowerTable[c]

\* str.upper() / str.lower()
Upper(s) == [i \in 1..Len(s) |-> UpperChar(s[i])]
Lower(s) == [i \in 1..Len(s) |-> LowerChar(s[i])]

\* str.strip(): drop leading and trailing whitespace
RECURSIVE LStrip(_)
LStrip(s) == IF s # <<>> /\ IsSpace(Head(s)) THEN LStrip(Tail(s)) ELSE s
RECURSIVE RStrip(_)
RStrip(s) == IF s # <<>> /\ IsSpace(s[Len(s)])
             THEN RStrip(SubSeq(s, 1, Len(s) - 1)) ELSE s
Strip(s) == RStrip(LStrip(s))

\* decimal rendering of a non-negative integer
RECURSIVE Digits(_)
Digits(n) == IF n < 10 THEN <<DigitChars[n + 1]>>
             ELSE Digits(n \div 10) \o <<DigitChars[(n % 10) + 1]>>

\* str(x), and Series.astype(str) on an object column: a blank cell is the
\* float nan and renders as the text "nan".
PyStr(c) == CASE c.k = "nan" -> <<"n","a","n">>
              [] c.k = "str" -> c.s
              [] c.k = "num" -> Digits(c.n)


\* ---------------------------------------------------------------- literals
NAME_OF_SUPPLIERS == <<"N","A","M","E"," ","O","F"," ","S","U","P","P","L","I","E","R","S">>
TOTAL_AMOUNT_PAID == <<"T","O","T","A","L"," ","A","M","O","U","N","T"," ","P","A","I","D">>
TIN == <<"T","I","N">>
TOTAL == <<"T","O","T","A","L">>
NA_OPTION == <<"N","/","A">>
SUPPLIER_NAME_HDR == <<"S","u","p","p","l","i","e","r"," ","N","a","m","e">>
TIN_HDR == <<"T","I","N">>
TOTAL_AMOUNT_PAID_HDR == <<"T","o","t","a","l"," ","A","m","o","u","n","t"," ","P","a","i","d">>

\* Python None, for header_row_index and for a column label that was not found
NoneIdx == -1
NoneCol == <<"None">>

\* ------------------------------------------------------- header detection
Contains(seq, v) == \E j \in 1..Len(seq) : seq[j] = v

\* [str(x).strip().upper() for x in df.iloc[i].tolist()]
RowValues(row) == [j \in 1..Len(row) |-> Upper(Strip(PyStr(row[j])))]

IsHeaderRow(row) ==
    LET row_values == RowValues(row)
    IN  Contains(row_values, NAME_OF_SUPPLIERS) /\ Contains(row_values, TOTAL_AMOUNT_PAID)

\* the for loop with break; i is the 1-based position, the result is the
\* 0-based Python index.  The variant is the loop without its break.
RECURSIVE HeaderScanNoBreak(_, _)
HeaderScanNoBreak(grid, i) ==
    IF i > Len(grid) THEN NoneIdx
    ELSE LET later == HeaderScanNoBreak(grid, i + 1)
         IN  IF later # NoneIdx THEN later
             ELSE IF IsHeaderRow(grid[i]) THEN i - 1 ELSE NoneIdx

RECURSIVE HeaderScan(_, _)
HeaderScan(grid, i) ==
    IF i > Len(grid) THEN NoneIdx
    ELSE IF IsHeaderRow(grid[i]) THEN i - 1
    ELSE HeaderScan(grid, i + 1)

FindHeader(grid) == HeaderScan(grid, 1)

\* df.columns = df.iloc[h]; df.columns = [str(c).strip().upper() ...]
Columns(grid, h) == RowValues(grid[h + 1])

\* df = df[h + 1:].reset_index(drop=True)
Body(grid, h) == SubSeq(grid, h + 2, Len(grid))

\* ------------------------------------------------------ column resolution
\* next((c for c in df.columns if c == label), None)
FindCol(columns, label) == IF Contains(columns, label) THEN label ELSE NoneCol

AutoCols(columns) ==
    [supplier_col |-> FindCol(columns, NAME_OF_SUPPLIERS),
     tin_col      |-> FindCol(columns, TIN),
     total_col    |-> FindCol(columns, TOTAL_AMOUNT_PAID)]

\* not all([supplier_col, total_col])
DetectionFailed(cols) == cols.supplier_col = NoneCol \/ cols.total_col = NoneCol

\* the three selectboxes at their initial selection (first option)
ManualCols(columns) ==
    [supplier_col |-> IF columns = <<>> THEN NoneCol ELSE columns[1],
     tin_col      |-> NA_OPTION,
     total_col    |-> IF columns = <<>> THEN NoneCol ELSE columns[1]]

ResolveCols(columns) ==
    IF DetectionFailed(AutoCols(columns)) THEN ManualCols(columns)
    ELSE AutoCols(columns)

\* positions of the columns df[[label]] selects (every column so labelled)
RECURSIVE PositionsFrom(_, _, _)
PositionsFrom(columns, label, j) ==
    IF j > Len(columns) THEN <<>>
    ELSE (IF columns[j] = label THEN <<j>> ELSE <<>>)
         \o PositionsFrom(columns, label, j + 1)

Positions(columns, label) == PositionsFrom(columns, label, 1)

\* df[[supplier_col, tin_col, total_col]]: KeyError when a label is no column;
\* df.columns = [three names]: ValueError unless exactly three were selected
SelectedPositions(columns, cols) ==
    Positions(columns, cols.supplier_col) \o Positions(columns, cols.tin_col)
        \o Positions(columns, cols.total_col)

SelectionRaises(columns, cols) ==
    \/ ~Contains(columns, cols.supplier_col)
    \/ ~Contains(columns, cols.tin_col)
    \/ ~Contains(columns, cols.total_col)
    \/ Len(SelectedPositions(columns, cols)) # 3

\* ------------------------------------------------------------ data cleaning
Extract(body, pos) ==
    [i \in 1..Len(body) |->
        [idx  |-> i - 1,
         name |-> body[i][pos[1]],
         tin  |-> body[i][pos[2]],
         amt  |-> body[i][pos[3]]]]

\* df.dropna(how='all', subset=[...])
DropNaAll(rows) ==
    SelectSeq(rows, LAMBDA r : ~(r.name.k = "nan" /\ r.tin.k = "nan" /\ r.amt.k = "nan"))

\* df[~((name.astype(str).str.strip() == "") & (tin ...) & (amount ...))]
AllStripEmpty(r) == /\ Strip(PyStr(r.name)) = <<>>
                    /\ Strip(PyStr(r.tin)) = <<>>
                    /\ Strip(PyStr(r.amt)) = <<>>

DropBlank(rows) == SelectSeq(rows, LAMBDA r : ~AllStripEmpty(r))

\* re.sub(r"[^A-Za-z0-9]", "", str(tin)).lower(), "" for a blank cell
RECURSIVE KeepAlnum(_)
KeepAlnum(s) == IF s = <<>> THEN <<>>
                ELSE (IF IsAlnum(Head(s)) THEN <<Head(s)>> ELSE <<>>)
                     \o KeepAlnum(Tail(s))

clean_tin(tin) == IF tin.k = "nan" THEN <<>> ELSE Lower(KeepAlnum(PyStr(tin)))

AddTinClean(rows) ==
    [i \in 1..Len(rows) |->
        [idx |-> rows[i].idx, name |-> rows[i].name, tin |-> rows[i].tin,
         amt |-> rows[i].amt, tin_clean |-> clean_tin(rows[i].tin)]]

CleanRows(body, pos) == AddTinClean(DropBlank(DropNaAll(Extract(body, pos))))


\* ------------------------------------------------------------ live search
\* re.search(pat, s) for a pattern of literal characters and ".", which stands
\* for any character but a newline (Series.str.contains defaults to regex=True)
RegexSearch(pat, s) ==
    \E k \in 0..(Len(s) - Len(pat)) :
        \A j \in 1..Len(pat) :
            IF pat[j] = "." THEN s[k + j] # "\n" ELSE pat[j] = s[k + j]

\* search_query.strip().lower()
CleanQuery(q) == Lower(Strip(q))

RowMatches(r, cleaned_query) ==
    \/ RegexSearch(cleaned_query, Lower(PyStr(r.name)))
    \/ RegexSearch(cleaned_query, Lower(r.tin_clean))

\* if search_query: ... else: filtered_df = df
Filter(rows, q) ==
    IF q # <<>> THEN SelectSeq(rows, LAMBDA r : RowMatches(r, CleanQuery(q)))
    ELSE rows

\* ------------------------------------------------------------- aggregation
RECURSIVE ParseDigits(_)
ParseDigits(s) == IF s = <<>> THEN 0
                  ELSE 10 * ParseDigits(SubSeq(s, 1, Len(s) - 1))
                       + ((CHOOSE i \in 1..10 : DigitChars[i] = s[Len(s)]) - 1)

\* pd.to_numeric(..., errors='coerce') on one cell: a number stays, text made
\* of digits is parsed, anything else becomes nan
ToNumeric(c) ==
    CASE c.k = "num" -> c
      [] c.k = "nan" -> NaN
      [] c.k = "str" ->
            IF Strip(c.s) # <<>> /\ \A j \in 1..Len(Strip(c.s)) : IsDigit(Strip(c.s)[j])
            THEN Num(ParseDigits(Strip(c.s)))
            ELSE NaN

\* Series.sum() skips nan
RECURSIVE SumAmounts(_)
SumAmounts(rows) ==
    IF rows = <<>> THEN 0
    ELSE (IF ToNumeric(Head(rows).amt).k = "num" THEN ToNumeric(Head(rows).amt).n ELSE 0)
         + SumAmounts(Tail(rows))

\* total_sum = pd.to_numeric(filtered_df["Total Amount Paid"], errors='coerce').sum()
TotalSum(rows) == SumAmounts(rows)

TotalRow(total_sum) == [name |-> Str(TOTAL), tin |-> Str(<<>>), amt |-> Num(total_sum)]

\* pd.concat([filtered_df[[three columns]], total_row], ignore_index=True)
DisplayDf(rows, total_sum) ==
    [i \in 1..Len(rows) |-> [name |-> rows[i].name, tin |-> rows[i].tin, amt |-> rows[i].amt]]
        \o <<TotalRow(total_sum)>>

\* ------------------------------------------------------- on-screen styling
highlight_total_row(row) == Upper(Strip(PyStr(row.name))) = TOTAL

\* "{:,.2f}".format(x) raises ValueError for a str; a number or nan formats
FormatRaises(display) == \E i \in 1..Len(display) : display[i].amt.k = "str"

\* per row: is the highlight style applied to its cells
StyledDf(display) == [i \in 1..Len(display) |-> highlight_total_row(display[i])]

\* ------------------------------------------------------------------ export
\* is the bold + gray fill applied to the worksheet row holding these cells.
\* The variant compares the cell without trimming it.
ExportHighlightsNoStrip(cells) == Upper(PyStr(cells[1])) = TOTAL

ExportHighlights(cells) == Upper(Strip(PyStr(cells[1]))) = TOTAL

export_to_excel(display) ==
    <<[cells |-> <<Str(SUPPLIER_NAME_HDR), Str(TIN_HDR), Str(TOTAL_AMOUNT_PAID_HDR)>>,
       bold |-> <<TRUE, TRUE, TRUE>>, fill |-> <<FALSE, FALSE, FALSE>>]>>
    \o [i \in 1..Len(display) |->
          LET cells == <<display[i].name, display[i].tin, display[i].amt>>
              hl == ExportHighlights(cells)
          IN [cells |-> cells, bold |-> <<hl, hl, hl>>, fill |-> <<hl, hl, hl>>]]


\* ------------------------------------------------------- one run of the script
\* What a run leaves behind when it stops before computing anything
NoResult(scr) ==
    [header_row_index |-> NoneIdx, df |-> <<>>, filtered_df |-> <<>>,
     display_df |-> <<>>, styled_df |-> <<>>, excel_file |-> <<>>, screen |-> scr]

\* lines 54-58: the warning and the three selectboxes of the manual fallback
ManualWidgets(columns) ==
    IF DetectionFailed(AutoCols(columns)) THEN <<"warning_manual", "selectboxes">> ELSE <<>>

\* lines 86-180, given the cleaned frame and the query.  The variant sums the
\* frame before the filter is applied.
ShowResultsUnfilteredTotal(h, pre, frame, q) ==
    LET filtered == Filter(frame, q)
        display == DisplayDf(filtered, TotalSum(frame))
    IN  IF filtered = <<>>
        THEN [NoResult(pre \o <<"text_input", "warning_no_match">>)
                EXCEPT !.header_row_index = h, !.df = frame]
        ELSE IF FormatRaises(display)
        THEN [NoResult(pre \o <<"text_input", "subheader", "error_exception">>)
                EXCEPT !.header_row_index = h, !.df = frame, !.filtered_df = filtered,
                       !.display_df = display]
        ELSE [header_row_index |-> h, df |-> frame, filtered_df |-> filtered,
              display_df |-> display, styled_df |-> StyledDf(display),
              excel_file |-> export_to_excel(display),
              screen |-> pre \o <<"text_input", "subheader", "dataframe", "entries",
                                  "download_button">>]

ShowResults(h, pre, frame, q) ==
    LET filtered == Filter(frame, q)
        display == DisplayDf(filtered, TotalSum(filtered))
    IN  IF filtered = <<>>
        THEN [NoResult(pre \o <<"text_input", "warning_no_match">>)
                EXCEPT !.header_row_index = h, !.df = frame]
        ELSE IF FormatRaises(display)
        THEN [NoResult(pre \o <<"text_input", "subheader", "error_exception">>)
                EXCEPT !.header_row_index = h, !.df = frame, !.filtered_df = filtered,
                       !.display_df = display]
        ELSE [header_row_index |-> h, df |-> frame, filtered_df |-> filtered,
              display_df |-> display, styled_df |-> StyledDf(display),
              excel_file |-> export_to_excel(display),
              screen |-> pre \o <<"text_input", "subheader", "dataframe", "entries",
                                  "download_button">>]

\* lines 43-76, given the header row
ProcessTable(grid, h, q) ==
    LET columns == Columns(grid, h)
        cols == ResolveCols(columns)
        pre == ManualWidgets(columns)
    IN  IF SelectionRaises(columns, cols)
        THEN [NoResult(pre \o <<"error_exception">>) EXCEPT !.header_row_index = h]
        ELSE ShowResults(h, pre, CleanRows(Body(grid, h), SelectedPositions(columns, cols)), q)

\* lines 28-186
\* The variant reports a sheet without header as an empty result.
RunScriptEmptyOnNoHeader(present, grid, q) ==
    IF ~present THEN NoResult(<<"info">>)
    ELSE LET h == FindHeader(grid)
         IN  IF h = NoneIdx THEN NoResult(<<"text_input", "warning_no_match">>)
             ELSE ProcessTable(grid, h, q)

RunScript(present, grid, q) ==
    IF ~present THEN NoResult(<<"info">>)
    ELSE LET h == FindHeader(grid)
         IN  IF h = NoneIdx THEN NoResult(<<"error_header">>)
             ELSE ProcessTable(grid, h, q)

\* ------------------------------------------------------------------ inputs
HeaderRow == <<Str(NAME_OF_SUPPLIERS), Str(TIN), Str(TOTAL_AMOUNT_PAID)>>
HeaderRowMixed == <<Str(<<" ","t","i","n">>), Str(<<"T","o","t","a","l"," ","A","m","o","u","n","t"," ","P","a","i","d"," ">>), Str(<<" ","n","a","m","e"," ","o","f"," ","S","u","p","p","l","i","e","r","s">>)>>
HeaderRowNoTin == <<Str(NAME_OF_SUPPLIERS), Str(<<"I","D">>), Str(TOTAL_AMOUNT_PAID)>>
HeaderRowNameOnly == <<Str(NAME_OF_SUPPLIERS), Str(TIN), Str(<<"A","M","O","U","N","T">>)>>

\* rows that may appear before, as, or after the header
HeaderPool ==
    { HeaderRow, HeaderRowMixed, HeaderRowNoTin, HeaderRowNameOnly,
      <<Str(<<"A","b">>), Str(<<"A","-","b">>), Num(1)>>,
      <<NaN, Str(<<" ">>), NaN>>,
      <<NaN, NaN, NaN>> }

\* rows below a well-formed header: supplier name, tax id, amount
DataPool ==
    { <<Str(<<"A","b">>), Str(<<"A","-","b">>), Num(1)>>,
      <<Str(<<" ","T","o","t","a","l"," ">>), NaN, Num(2)>>,
      <<NaN, Str(<<" ">>), NaN>>,
      <<NaN, NaN, NaN>>,
      <<Str(<<" ">>), Str(<<" ">>), Str(<<" ">>)>>,
      <<Str(<<"c">>), Str(<<"A","-","b">>), Str(<<"x">>)>> }

HeaderGrids == UNION { [1..n -> HeaderPool] : n \in 0..MaxRows }
DataGrids == { <<HeaderRow>> \o d : d \in UNION { [1..n -> DataPool] : n \in 0..MaxData } }

QueryChars == {"A", ".", " "}
Queries == UNION { [1..n -> QueryChars] : n \in 0..MaxQueryLen }
HeaderQueries == { <<>>, <<"A">>, <<".">> }

\* ------------------------------------------------------------------- state
VARIABLES
    has_file,          \* uploaded_file is not None
    uploaded,          \* the grid load_excel returns for the uploaded file
    search_query,      \* value of the text_input widget
    header_row_index, df, filtered_df, display_df,   \* locals of the last run
    styled_df,         \* what st.dataframe rendered: the highlight of each row
    excel_file,        \* the worksheet rows behind the download button
    screen             \* the elements the last run put on the page

vars == <<has_file, uploaded, search_query, header_row_index, df, filtered_df,
          display_df, styled_df, excel_file, screen>>

Rendered(r) ==
    /\ header_row_index' = r.header_row_index
    /\ df' = r.df
    /\ filtered_df' = r.filtered_df
    /\ display_df' = r.display_df
    /\ styled_df' = r.styled_df
    /\ excel_file' = r.excel_file
    /\ screen' = r.screen

Init ==
    /\ has_file = FALSE
    /\ uploaded = <<>>
    /\ search_query = <<>>
    /\ header_row_index = NoneIdx
    /\ df = <<>>
    /\ filtered_df = <<>>
    /\ display_df = <<>>
    /\ styled_df = <<>>
    /\ excel_file = <<>>
    /\ screen = <<"info">>

\* the user uploads a file; the text_input is created with an empty value.
\* Replacing a file is removing it and uploading the other one.
Upload(g) ==
    /\ ~has_file
    /\ has_file' = TRUE
    /\ uploaded' = g
    /\ search_query' = <<>>
    /\ LET r == RunScript(TRUE, g, <<>>) IN Rendered(r)

\* the user edits the search box (it exists only when a run rendered it)
ChangeQuery(q) ==
    /\ has_file
    /\ Contains(screen, "text_input")
    /\ q # search_query
    /\ search_query' = q
    /\ UNCHANGED <<has_file, uploaded>>
    /\ LET r == RunScript(TRUE, uploaded, q) IN Rendered(r)

\* the user removes the file; the widgets below the uploader are gone
RemoveFile ==
    /\ has_file
    /\ has_file' = FALSE
    /\ uploaded' = <<>>
    /\ search_query' = <<>>
    /\ LET r == RunScript(FALSE, <<>>, <<>>) IN Rendered(r)

\* uploads of sheets with arbitrary leading rows and header variants
NextHeader ==
    \/ \E g \in HeaderGrids : Upload(g)
    \/ \E q \in HeaderQueries : ChangeQuery(q)
    \/ RemoveFile

SpecHeader == Init /\ [][NextHeader]_vars

\* uploads of sheets with a well-formed header, searched with any query
NextData ==
    \/ \E g \in DataGrids : Upload(g)
    \/ \E q \in Queries : ChangeQuery(q)
    \/ RemoveFile

SpecData == Init /\ [][NextData]_vars


\* ================================================================== claims
\* A cell rendered to text, trimmed and upper-cased, as the claims word it
Label(c) == Upper(Strip(PyStr(c)))
HasLabel(row, label) == \E j \in 1..Len(row) : Label(row[j]) = label
Qualifies(row) == HasLabel(row, NAME_OF_SUPPLIERS) /\ HasLabel(row, TOTAL_AMOUNT_PAID)
QualifyingRows == { i \in 1..Len(uploaded) : Qualifies(uploaded[i]) }

\* C1: the header position is the smallest index of a qualifying row (never a
\* later qualifying row), and it is None exactly when no row qualifies.
C1_HeaderIsFirstQualifyingRow ==
    has_file =>
        IF QualifyingRows = {} THEN header_row_index = NoneIdx
        ELSE /\ header_row_index + 1 \in QualifyingRows
             /\ \A i \in QualifyingRows : header_row_index + 1 <= i

\* C1 witness: two rows qualify, the first of them below a row that does not,
\* and the first one was chosen.
C1_Witness ==
    /\ has_file
    /\ \E i, j \in QualifyingRows : 1 < i /\ i < j /\ header_row_index = i - 1

\* C2: a sheet whose header row holds "NAME OF SUPPLIERS" but not "TOTAL AMOUNT
\* PAID" ends in the manual column selection, with the column labels offered,
\* and not in the header-not-found error.
NameOnlyHeader ==
    /\ has_file
    /\ \E i \in 1..Len(uploaded) : HasLabel(uploaded[i], NAME_OF_SUPPLIERS)
    /\ \A i \in 1..Len(uploaded) : ~HasLabel(uploaded[i], TOTAL_AMOUNT_PAID)

C2_NameOnlyHeaderAsksManualInput ==
    NameOnlyHeader =>
        /\ Contains(screen, "warning_manual")
        /\ Contains(screen, "selectboxes")
        /\ ~Contains(screen, "error_header")

\* C3: a header row with both mandatory labels and no "TIN" column still
\* yields the record set, every record with an empty tax id and empty
\* normalized id, and no error.
HeaderWithoutTin ==
    /\ has_file
    /\ header_row_index # NoneIdx
    /\ ~HasLabel(uploaded[header_row_index + 1], TIN)

C3_MissingTinStillSucceeds ==
    HeaderWithoutTin =>
        /\ ~Contains(screen, "error_exception")
        /\ Contains(screen, "text_input")
        /\ \A i \in 1..Len(df) : df[i].tin_clean = <<>> /\ Strip(PyStr(df[i].tin)) = <<>>

\* C8: when no row qualifies as header the run ends in the header error and
\* produces no record set, no total row, no table and no export, and does not
\* report an empty result.
C8_HeaderNotFoundIsTerminal ==
    (has_file /\ QualifyingRows = {}) =>
        /\ screen = <<"error_header">>
        /\ df = <<>> /\ filtered_df = <<>> /\ display_df = <<>>
        /\ styled_df = <<>> /\ excel_file = <<>>

\* C8 witness: a sheet with rows, one of them holding only one of the labels,
\* ended in the header error.
C8_Witness ==
    /\ has_file
    /\ Len(uploaded) >= 2
    /\ QualifyingRows = {}
    /\ \E i \in 1..Len(uploaded) : HasLabel(uploaded[i], NAME_OF_SUPPLIERS)
    /\ screen = <<"error_header">>

\* ---- claims about the records; they speak of runs that built the frame
FrameBuilt == has_file /\ Contains(screen, "text_input")

\* the three mapped cells of the k-th row below the header (k from 0)
MappedCell(k, label) ==
    uploaded[header_row_index + 2 + k]
            [CHOOSE j \in 1..Len(uploaded[header_row_index + 1]) :
                 Label(uploaded[header_row_index + 1][j]) = label]
RowsBelowHeader == 0..(Len(uploaded) - header_row_index - 2)

\* empty (a null cell counts as empty) or whitespace-only
BlankCell(c) == c.k = "nan" \/ (c.k = "str" /\ Strip(c.s) = <<>>)
BlankRow(k) == /\ BlankCell(MappedCell(k, NAME_OF_SUPPLIERS))
               /\ BlankCell(MappedCell(k, TIN))
               /\ BlankCell(MappedCell(k, TOTAL_AMOUNT_PAID))

\* C4: a row below the header is excluded from the record set iff its three
\* mapped cells are each empty or whitespace-only, in any mix; so the record
\* count is the row count minus the blank rows and every record has a
\* non-blank field.
C4_BlankRowsDropped ==
    FrameBuilt =>
        /\ { df[i].idx : i \in 1..Len(df) } = { k \in RowsBelowHeader : ~BlankRow(k) }
        /\ Len(df) = Cardinality({ k \in RowsBelowHeader : ~BlankRow(k) })
        /\ \A i \in 1..Len(df) :
              ~(BlankCell(df[i].name) /\ BlankCell(df[i].tin) /\ BlankCell(df[i].amt))

\* C5: the filter keeps, in order, exactly the records whose lower-cased
\* supplier name or normalized tax id has the trimmed, lower-cased query as a
\* literal substring; a blank name matches only through the tax id.
LiteralSubstring(needle, s) ==
    \E k \in 0..(Len(s) - Len(needle)) : \A j \in 1..Len(needle) : needle[j] = s[k + j]
NameText(c) == IF c.k = "nan" THEN <<>> ELSE PyStr(c)
LiteralMatch(r, q) ==
    \/ LiteralSubstring(Lower(Strip(q)), Lower(NameText(r.name)))
    \/ LiteralSubstring(Lower(Strip(q)), r.tin_clean)

\* The record sets meant are those of the data model (every record has a
\* non-blank field), in runs that went on to show the filter's result.
WellFormedRecords ==
    \A i \in 1..Len(df) : ~(BlankCell(df[i].name) /\ BlankCell(df[i].tin) /\ BlankCell(df[i].amt))

C5_FilterIsLiteralSubstring ==
    (FrameBuilt /\ WellFormedRecords /\ ~Contains(screen, "error_exception")) =>
        filtered_df = SelectSeq(df, LAMBDA r : LiteralMatch(r, search_query))

\* C6: a record whose amount cannot be parsed never makes the run fail: the
\* table and the export are produced, they hold the record, and it adds 0 to
\* the total.
Unparsable(c) == c.k = "str" /\ ToNumeric(c).k = "nan"
C6_BadAmountIsAbsorbed ==
    (FrameBuilt /\ \E i \in 1..Len(filtered_df) : Unparsable(filtered_df[i].amt)) =>
        /\ ~Contains(screen, "error_exception")
        /\ Contains(screen, "dataframe")
        /\ Contains(screen, "download_button")
        /\ Len(excel_file) = Len(filtered_df) + 2

\* C7: the total row shown and exported is ("TOTAL", "", sum of the amounts of
\* the records displayed after the filter, absent amounts counting 0), and the
\* filter's input holds rows of the sheet only.
AmountOrZero(c) == IF c.k = "num" THEN c.n ELSE 0
RECURSIVE SumOf(_)
SumOf(rows) == IF rows = <<>> THEN 0 ELSE AmountOrZero(Head(rows).amt) + SumOf(Tail(rows))

C7_TotalTracksFilter ==
    Contains(screen, "dataframe") =>
        LET n == Len(display_df)
            shown == SubSeq(display_df, 1, n - 1)
        IN  /\ n = Len(filtered_df) + 1
            /\ \A i \in 1..(n - 1) :
                  /\ shown[i].name = filtered_df[i].name
                  /\ shown[i].tin = filtered_df[i].tin
                  /\ shown[i].amt = filtered_df[i].amt
            /\ display_df[n] = [name |-> Str(TOTAL), tin |-> Str(<<>>), amt |-> Num(SumOf(shown))]
            /\ Len(excel_file) = n + 1
            /\ excel_file[n + 1].cells = <<Str(TOTAL), Str(<<>>), Num(SumOf(shown))>>
            /\ \A i \in 1..n :
                  excel_file[i + 1].cells = <<display_df[i].name, display_df[i].tin, display_df[i].amt>>
            /\ (SumOf(shown) # SumOf(df) => display_df[n].amt.n # SumOf(df))
            /\ \A i \in 1..Len(df) :
                  /\ df[i].idx \in RowsBelowHeader
                  /\ df[i].name = MappedCell(df[i].idx, NAME_OF_SUPPLIERS)
                  /\ df[i].tin = MappedCell(df[i].idx, TIN)
                  /\ df[i].amt = MappedCell(df[i].idx, TOTAL_AMOUNT_PAID)
            /\ \A i, j \in 1..Len(df) : i < j => df[i].idx < df[j].idx

\* C7 witness: a query hides a record with an amount, a displayed record has
\* no amount, and the total shown differs from the unfiltered sum.
C7_Witness ==
    /\ Contains(screen, "dataframe")
    /\ search_query # <<>>
    /\ Len(filtered_df) < Len(df)
    /\ \E i \in 1..Len(filtered_df) : filtered_df[i].amt.k = "nan"
    /\ display_df[Len(display_df)].amt.n # SumOf(df)

\* C9: an empty record set is no error, and what the user sees when the sheet
\* has no records differs from what the user sees when records exist and none
\* matches the query.
ScreensOfUnmatchedQuery ==
    { r.screen : r \in { rr \in { RunScript(TRUE, g, q) : g \in DataGrids, q \in Queries } :
                            rr.df # <<>> /\ rr.filtered_df = <<>> } }

C9_EmptySheetDiffersFromNoMatch ==
    (FrameBuilt /\ df = <<>>) =>
        /\ ~Contains(screen, "error_exception")
        /\ ~Contains(screen, "error_header")
        /\ screen \notin ScreensOfUnmatchedQuery

\* C10: the export gives bold and gray fill to all three cells of a row below
\* the header row iff its first cell, trimmed and upper-cased, is "TOTAL"; the
\* total row always; and the table on screen highlights the same rows.
IsTotalCell(c) == Upper(Strip(PyStr(c))) = TOTAL
AllThree(flags, b) == flags = <<b, b, b>>

C10_SameContentBasedStyling ==
    Contains(screen, "dataframe") =>
        /\ Len(excel_file) = Len(display_df) + 1
        /\ Len(styled_df) = Len(display_df)
        /\ \A i \in 1..Len(display_df) :
              LET total == IsTotalCell(excel_file[i + 1].cells[1])
              IN  /\ excel_file[i + 1].cells[1] = display_df[i].name
                  /\ AllThree(excel_file[i + 1].bold, total)
                  /\ AllThree(excel_file[i + 1].fill, total)
                  /\ styled_df[i] = total
        /\ styled_df[Len(display_df)]
        /\ AllThree(excel_file[Len(excel_file)].fill, TRUE)

\* C10 witness: a table with a record named " Total " (highlighted in both)
\* and a record that is not highlighted in either.
C10_Witness ==
    /\ Contains(screen, "dataframe")
    /\ \E i \in 1..(Len(display_df) - 1) :
          /\ display_df[i].name.s # TOTAL
          /\ styled_df[i] /\ AllThree(excel_file[i + 1].fill, TRUE)
    /\ \E i \in 1..(Len(display_df) - 1) :
          ~styled_df[i] /\ AllThree(excel_file[i + 1].fill, FALSE)

====
